---- MODULE Spec2Model ----
(***************************************************************************)
(* Assessment & Progress Engine of the LearnFlow backend.                  *)
(*                                                                         *)
(* Five specifications share the variables below:                           *)
(*   Spec      the exercise submission lifecycle, the progress rollup and  *)
(*             the event notifier, one request at a time;                  *)
(*   SpecLoop  the same handlers as asyncio tasks of ONE server process,   *)
(*             which interleave at their awaits; the database calls        *)
(*             between two awaits are synchronous and therefore atomic     *)
(*             with respect to the other tasks;                            *)
(*   SpecRace  update_progress issued by request-parallel workers whose    *)
(*             sessions interleave at the database (SELECT, INSERT+COMMIT, *)
(*             UPDATE+COMMIT are separate steps);                          *)
(*   SpecQuiz  the quiz engine, one request at a time;                     *)
(*   SpecHttp  the same handlers behind get_current_user_payload, which    *)
(*             derives the identity from the path and the session header.  *)
(*                                                                         *)
(* The identity context (role, user_id) is an input of every request, as   *)
(* the handlers take it from get_current_user_payload.                     *)
(***************************************************************************)
EXTENDS Integers, Sequences, FiniteSets, Bags, TLC

VARIABLES
    submissions,   \* table exercise_submissions: Seq of rows, id = index
    progress,      \* table progress: Seq of rows, id = index
    clock,         \* datetime.utcnow(): grows with every request that writes
    producer,      \* KafkaService._producer: None or the id of a producer object
    isDisabled,    \* KafkaService._is_disabled
    created,       \* number of AIOKafkaProducer objects constructed so far
    started,       \* producer objects whose start() completed
    stopped,       \* producer objects on which stop() was called
    transportUp,   \* environment: is the broker reachable
    sent,          \* number of events the broker accepted
    tasks,         \* request handlers of the process: one record per task
    closed,        \* the lifespan shutdown has called close_producer
    last,          \* kind and HTTP status of the request answered last
    escaped,       \* the exception that left the last publish_event call
    hist,          \* history: per (student, exercise) the update_progress calls made
    workers,       \* SpecRace: the request and the session of each worker process
    quizSubs,      \* table quiz_submissions: Seq of rows, id = index
    answers,       \* table quiz_answers: a bag of rows (the id column left out)
    qresp,         \* SpecQuiz: the last request and its response
    students,      \* table students: Seq of rows, id = index
    regResp        \* SpecRegister: the last registration and its response

vars == <<submissions, progress, clock, producer, isDisabled, created, started, stopped,
          transportUp, sent, tasks, closed, last, escaped, hist, workers, quizSubs, answers, qresp,
          students, regResp>>

dbVars    == <<submissions, progress>>
kafkaVars == <<producer, isDisabled, created, started, stopped, sent, closed>>
raceVars  == <<workers>>
quizVars  == <<quizSubs, answers, qresp>>
authVars  == <<students, regResp>>

\* Python's None for a nullable column, an absent argument or an unset attribute.
None == -1

-----------------------------------------------------------------------------
(* Bounds of the model and the inputs the requests draw from.              *)

MaxRequests    == 3
MaxRaceRequests == 3
MaxQuizRequests == 4
MaxQuizSubs     == 1
MaxSubmissions == 1

Tasks     == {1, 2}
Workers   == {1, 2}
Students  == {1}
Exercises == {1}

\* (role, user_id) as get_current_user_payload returns them.
Teacher   == [role |-> "teacher", user_id |-> 7]
Student1  == [role |-> "student", user_id |-> 1]
Anonymous == [role |-> "anonymous", user_id |-> 0]
Principals == {Teacher, Student1, Anonymous}

\* evaluate_submission: status is any string, score is absent or 0..100.
StatusArgs == {"passing", "completed"}
ScoreArgs  == {None, 0, 60, 80}

Pairs == Students \X Exercises

-----------------------------------------------------------------------------
(* SubmissionService                                                       *)

\* ExerciseSubmission(student_id, exercise_id, code, language, status="submitted")
\* after commit and refresh: score and completed_at are NULL.
NewSubmission(student_id, exercise_id) ==
    [student_id |-> student_id, exercise_id |-> exercise_id,
     status |-> "submitted", score |-> None, completed_at |-> None]

create_submission(subs, student_id, exercise_id) ==
    Append(subs, NewSubmission(student_id, exercise_id))

\* A mutant of get_submission: the filter on the id is lost, the first row of
\* the table is returned.
GetSubmissionFirst(subs, submission_id) ==
    IF subs = <<>> THEN None ELSE 1

\* db.query(ExerciseSubmission).filter(id == submission_id).first(): the id or None
get_submission(subs, submission_id) ==
    IF submission_id \in DOMAIN subs THEN submission_id ELSE None

\* A mutant of update_submission_status: the new status is not committed by
\* the time the handler publishes.
UpdateStatusUncommitted(subs, submission_id, status, score, now) == subs

update_submission_status(subs, submission_id, status, score, now) ==
    IF get_submission(subs, submission_id) = None
    THEN subs
    ELSE [subs EXCEPT ![submission_id] =
            [@ EXCEPT !.status = status,
                      !.score = IF score # None THEN score ELSE @,
                      !.completed_at = IF status = "passing" THEN now ELSE @]]

-----------------------------------------------------------------------------
(* ProgressService                                                         *)

\* Progress(student_id, exercise_id, status="in_progress") after commit and
\* refresh: attempts takes the column default 0, best_score and completed_at NULL.
NewProgress(student_id, exercise_id) ==
    [student_id |-> student_id, exercise_id |-> exercise_id,
     status |-> "in_progress", attempts |-> 0,
     best_score |-> None, completed_at |-> None]

create_progress(tbl, student_id, exercise_id) ==
    Append(tbl, NewProgress(student_id, exercise_id))

ProgressRows(tbl, student_id, exercise_id) ==
    {i \in DOMAIN tbl : tbl[i].student_id = student_id
                        /\ tbl[i].exercise_id = exercise_id}

\* .filter(student_id, exercise_id).first(): the row with the lowest id, or None
FirstProgress(tbl, student_id, exercise_id) ==
    LET rows == ProgressRows(tbl, student_id, exercise_id)
    IN  IF rows = {} THEN None
        ELSE CHOOSE i \in rows : \A j \in rows : i <= j

\* A mutant of NewBestScore: the last score overwrites the best one.
NewBestScoreOverwrite(best_score, score) ==
    IF score # None THEN score ELSE best_score

\* if score is not None and (best_score is None or score > best_score)
NewBestScore(best_score, score) ==
    IF score # None /\ (best_score = None \/ score > best_score)
    THEN score
    ELSE best_score

\* The assignments update_progress makes on the loaded row.
TouchProgress(row, status, score, now) ==
    [row EXCEPT !.status = status,
                !.attempts = @ + 1,
                !.best_score = NewBestScore(@, score),
                !.completed_at = IF status = "completed" THEN now ELSE @]

\* The whole of update_progress when nothing runs between its query and its commit.
update_progress(tbl, student_id, exercise_id, status, score, now) ==
    LET t1 == IF FirstProgress(tbl, student_id, exercise_id) = None
              THEN create_progress(tbl, student_id, exercise_id)
              ELSE tbl
        i  == FirstProgress(t1, student_id, exercise_id)
    IN  [t1 EXCEPT ![i] = TouchProgress(@, status, score, now)]

-----------------------------------------------------------------------------
(* KafkaService: the events                                                *)

\* publish_submission_event: topic exercise-submissions
SubmissionEvent(student_id, exercise_id, submission_id, status) ==
    [topic |-> "exercise-submissions", student_id |-> student_id,
     exercise_id |-> exercise_id, submission_id |-> submission_id,
     status |-> status, score |-> None]

\* A mutant of ProgressEvent: the event carries the status a new Progress row
\* has, not the status of the evaluation.
ProgressEventStale(student_id, exercise_id, status, score) ==
    [topic |-> "progress-updates", student_id |-> student_id,
     exercise_id |-> exercise_id, submission_id |-> None,
     status |-> "in_progress", score |-> score]

\* publish_progress_event: topic progress-updates
ProgressEvent(student_id, exercise_id, status, score) ==
    [topic |-> "progress-updates", student_id |-> student_id,
     exercise_id |-> exercise_id, submission_id |-> None,
     status |-> status, score |-> score]

\* A mutant of GetProducerDisabled: get_producer forgets the flag.
GetProducerRetries(disabled) == FALSE

\* get_producer: if cls._is_disabled: return None
GetProducerDisabled(disabled) == disabled

\* A mutant of PublishEventExcept: the handler re-raises what it caught.
PublishEventReraise(exc) == exc

\* publish_event wraps get_producer and send_and_wait in try / except Exception,
\* logs and does not raise: the exception that leaves publish_event when exc
\* ("none" or "Exception") was raised inside it.
PublishEventExcept(exc) == "none"

-----------------------------------------------------------------------------
(* Request handlers as tasks of the event loop                             *)

\* A task is idle, or a handler suspended at one of its awaits: events are the
\* publish_*_event calls it still has to make, loc is the producer it holds.
IdleTask ==
    [pc |-> "idle", kind |-> "none", sub |-> None, events |-> <<>>, loc |-> None]

\* HTTP status of a handler that ran to its return statement.
SuccessCode(kind) == IF kind = "create" THEN 201 ELSE 200

Answer(kind, code) == [kind |-> kind, resp |-> code]

\* The body of publish_event ended with exc raised inside it ("none" if nothing
\* was): what the handler does next. An exception that leaves publish_event is
\* caught by the handler's own except Exception, which answers 500.
AfterPublish(t, exc) ==
    LET tk == tasks[t]
        out == PublishEventExcept(exc)
    IN  /\ escaped' = out
        /\ IF out # "none"
           THEN /\ tasks' = [tasks EXCEPT ![t] = IdleTask]
                /\ last' = Answer(tk.kind, 500)
           ELSE IF Len(tk.events) <= 1
           THEN /\ tasks' = [tasks EXCEPT ![t] = IdleTask]
                /\ last' = Answer(tk.kind, SuccessCode(tk.kind))
           ELSE /\ tasks' = [tasks EXCEPT ![t] =
                                [tk EXCEPT !.pc = "publish", !.loc = None,
                                           !.events = Tail(tk.events)]]
                /\ UNCHANGED last

\* The event loop runs one task at a time: t can start or resume only when no
\* other task is running between two of its awaits.
LoopFree(t) == \A u \in Tasks \ {t} : tasks[u].pc # "publish"

\* History of update_progress calls on a pair: how many, and the largest score.
HistAfter(h, student_id, exercise_id, score) ==
    [h EXCEPT ![<<student_id, exercise_id>>] =
        [calls |-> @.calls + 1,
         best  |-> IF score # None /\ score > @.best THEN score ELSE @.best]]

\* A handler that raises HTTPException before it writes anything.
Reject(t, kind, code) ==
    /\ tasks[t].pc = "idle"
    /\ LoopFree(t)
    /\ last' = Answer(kind, code)
    /\ UNCHANGED <<tasks, escaped, clock, hist, transportUp>>
    /\ UNCHANGED <<dbVars, kafkaVars, raceVars, quizVars, authVars>>

\* POST /api/submissions/ up to its first await
CreateSubmission(t, who, student_id, exercise_id) ==
    IF who.role # "student" \/ student_id # who.user_id
    THEN Reject(t, "create", 403)
    ELSE IF exercise_id \notin Exercises
    THEN \* ExerciseService.get_exercise found nothing
         Reject(t, "create", 404)
    ELSE /\ tasks[t].pc = "idle"
         /\ LoopFree(t)
         /\ clock < MaxRequests
         /\ Len(submissions) < MaxSubmissions
         /\ clock' = clock + 1
         /\ submissions' = create_submission(submissions, student_id, exercise_id)
         /\ tasks' = [tasks EXCEPT ![t] =
               [IdleTask EXCEPT !.pc = "publish", !.kind = "create",
                  !.sub = Len(submissions) + 1,
                  !.events = <<SubmissionEvent(student_id, exercise_id,
                                  Len(submissions) + 1, "submitted")>>]]
         /\ UNCHANGED <<progress, hist, last, escaped, transportUp>>
         /\ UNCHANGED <<kafkaVars, raceVars, quizVars, authVars>>

\* PUT /api/submissions/{id}/evaluate up to its first await
EvaluateSubmission(t, who, submission_id, status, score) ==
    IF who.user_id = 0
    THEN Reject(t, "evaluate", 401)
    ELSE IF who.role # "teacher"
    THEN Reject(t, "evaluate", 403)
    ELSE IF get_submission(submissions, submission_id) = None
    THEN Reject(t, "evaluate", 404)
    ELSE LET row == submissions[get_submission(submissions, submission_id)]
             now == clock + 1
         IN  /\ tasks[t].pc = "idle"
             /\ LoopFree(t)
             /\ clock < MaxRequests
             /\ clock' = now
             /\ submissions' = update_submission_status(
                                  submissions, submission_id, status, score, now)
             /\ progress' = update_progress(progress, row.student_id,
                                  row.exercise_id, status, score, now)
             /\ hist' = HistAfter(hist, row.student_id, row.exercise_id, score)
             /\ tasks' = [tasks EXCEPT ![t] =
                   [IdleTask EXCEPT !.pc = "publish", !.kind = "evaluate",
                      !.sub = submission_id,
                      !.events = <<SubmissionEvent(row.student_id, row.exercise_id,
                                      submission_id, status),
                                   ProgressEvent(row.student_id, row.exercise_id,
                                      status, score)>>]]
             /\ UNCHANGED <<last, escaped, transportUp>>
             /\ UNCHANGED <<kafkaVars, raceVars, quizVars, authVars>>

\* publish_event up to the first await inside get_producer, or to send_and_wait
PublishBegin(t) ==
    /\ tasks[t].pc = "publish"
    /\ IF GetProducerDisabled(isDisabled)
       THEN \* get_producer returns None: the event is skipped
            /\ AfterPublish(t, "none")
            /\ UNCHANGED <<producer, created>>
       ELSE IF producer = None
       THEN \* cls._producer = AIOKafkaProducer(...); await cls._producer.start()
            /\ created' = created + 1
            /\ producer' = created + 1
            /\ tasks' = [tasks EXCEPT ![t] =
                            [@ EXCEPT !.pc = "start", !.loc = created + 1]]
            /\ UNCHANGED <<last, escaped>>
       ELSE \* return cls._producer; await producer.send_and_wait(...)
            /\ tasks' = [tasks EXCEPT ![t] =
                            [@ EXCEPT !.pc = "send", !.loc = producer]]
            /\ UNCHANGED <<producer, created, last, escaped>>
    /\ UNCHANGED <<isDisabled, started, stopped, sent, closed, transportUp,
                   hist, clock>>
    /\ UNCHANGED <<dbVars, raceVars, quizVars, authVars>>

\* await cls._producer.start() ends: the broker answered, or the attempt failed
StartDone(t) ==
    /\ tasks[t].pc = "start"
    /\ LoopFree(t)
    /\ IF transportUp
       THEN /\ started' = started \cup {tasks[t].loc}
            /\ UNCHANGED <<isDisabled, producer>>
            /\ IF producer = None
               THEN \* return cls._producer gives None: the event is skipped
                    AfterPublish(t, "none")
               ELSE /\ tasks' = [tasks EXCEPT ![t] =
                                    [@ EXCEPT !.pc = "send", !.loc = producer]]
                    /\ UNCHANGED <<last, escaped>>
       ELSE \* except Exception: _is_disabled = True; _producer = None; return None
            /\ isDisabled' = TRUE
            /\ producer' = None
            /\ UNCHANGED started
            /\ AfterPublish(t, "none")
    /\ UNCHANGED <<created, stopped, sent, closed, transportUp, hist, clock>>
    /\ UNCHANGED <<dbVars, raceVars, quizVars, authVars>>

\* await producer.send_and_wait(...) ends: delivered, or it raised
SendDone(t) ==
    /\ tasks[t].pc = "send"
    /\ LoopFree(t)
    /\ IF tasks[t].loc \in started \ stopped /\ transportUp
       THEN /\ sent' = sent + 1
            /\ AfterPublish(t, "none")
       ELSE /\ UNCHANGED sent
            /\ AfterPublish(t, "Exception")
    /\ UNCHANGED <<producer, isDisabled, created, started, stopped, closed,
                   transportUp, hist, clock>>
    /\ UNCHANGED <<dbVars, raceVars, quizVars, authVars>>

\* close_producer, called once by the lifespan shutdown
CloseProducer ==
    /\ ~closed
    /\ \A u \in Tasks : tasks[u].pc # "publish"
    /\ closed' = TRUE
    /\ IF producer # None
       THEN /\ stopped' = stopped \cup {producer}
            /\ producer' = None
       ELSE UNCHANGED <<stopped, producer>>
    /\ UNCHANGED <<isDisabled, created, started, sent, transportUp, tasks, last, escaped,
                   hist, clock>>
    /\ UNCHANGED <<dbVars, raceVars, quizVars, authVars>>

\* The broker goes away or comes back.
TransportFlip ==
    /\ transportUp' = ~transportUp
    /\ UNCHANGED <<tasks, last, escaped, hist, clock>>
    /\ UNCHANGED <<dbVars, kafkaVars, raceVars, quizVars, authVars>>

-----------------------------------------------------------------------------
(* evaluate_submission in request-parallel workers: every worker has its   *)
(* own session, and the statements of different sessions interleave.       *)

\* A worker is idle or inside update_progress: row is the Progress object its
\* session loaded (with the id of the table row), None before it has one.
IdleWorker ==
    [pc |-> "idle", student_id |-> None, exercise_id |-> None,
     status |-> "none", score |-> None, id |-> None, row |-> None]

\* A mutant of FlushProgress: the update is applied to the stored row, as
\* UPDATE ... SET attempts = attempts + 1, best_score = GREATEST(...) would.
FlushProgressAtomic(tbl, id, loaded, new) ==
    [tbl EXCEPT ![id] =
        [@ EXCEPT !.status = new.status,
                  !.attempts = @ + (new.attempts - loaded.attempts),
                  !.best_score = IF new.best_score # None
                                    /\ (@ = None \/ new.best_score > @)
                                 THEN new.best_score ELSE @,
                  !.completed_at = new.completed_at]]

\* The UPDATE the session flushes at commit: it sets the columns whose value
\* differs from the one loaded, in the row with the loaded object's id.
FlushProgress(tbl, id, loaded, new) ==
    [tbl EXCEPT ![id] =
        [@ EXCEPT !.status = IF new.status # loaded.status THEN new.status ELSE @,
                  !.attempts = IF new.attempts # loaded.attempts
                               THEN new.attempts ELSE @,
                  !.best_score = IF new.best_score # loaded.best_score
                                 THEN new.best_score ELSE @,
                  !.completed_at = IF new.completed_at # loaded.completed_at
                                   THEN new.completed_at ELSE @]]

\* get_submission, update_submission_status with its commit, and the query of
\* update_progress
RaceQuery(w, submission_id, status, score) ==
    /\ workers[w].pc = "idle"
    /\ clock < MaxRaceRequests
    /\ get_submission(submissions, submission_id) # None
    /\ LET sub == submissions[submission_id]
           now == clock + 1
           i   == FirstProgress(progress, sub.student_id, sub.exercise_id)
       IN  /\ clock' = now
           /\ submissions' = update_submission_status(
                                submissions, submission_id, status, score, now)
           /\ workers' = [workers EXCEPT ![w] =
                 [pc |-> IF i = None THEN "absent" ELSE "loaded",
                  student_id |-> sub.student_id, exercise_id |-> sub.exercise_id,
                  status |-> status, score |-> score, id |-> i,
                  row |-> IF i = None THEN None ELSE progress[i]]]
    /\ UNCHANGED <<progress, hist, tasks, last, escaped, transportUp>>
    /\ UNCHANGED <<kafkaVars, quizVars, authVars>>

\* if not progress: create_progress: INSERT, commit, refresh
RaceInsert(w) ==
    /\ workers[w].pc = "absent"
    /\ progress' = create_progress(progress, workers[w].student_id,
                                   workers[w].exercise_id)
    /\ workers' = [workers EXCEPT ![w] =
          [@ EXCEPT !.pc = "loaded", !.id = Len(progress) + 1,
                    !.row = NewProgress(workers[w].student_id,
                                        workers[w].exercise_id)]]
    /\ UNCHANGED <<submissions, clock, hist, tasks, last, escaped, transportUp>>
    /\ UNCHANGED <<kafkaVars, quizVars, authVars>>

\* The assignments on the loaded object, then db.commit(); the notifications of
\* the worker's own process follow and touch no table.
RaceCommit(w) ==
    /\ workers[w].pc = "loaded"
    /\ LET wk  == workers[w]
           now == clock
       IN  /\ progress' = FlushProgress(progress, wk.id, wk.row,
                             TouchProgress(wk.row, wk.status, wk.score, now))
           /\ hist' = HistAfter(hist, wk.student_id, wk.exercise_id, wk.score)
    /\ workers' = [workers EXCEPT ![w] = IdleWorker]
    /\ UNCHANGED <<submissions, clock, tasks, last, escaped, transportUp>>
    /\ UNCHANGED <<kafkaVars, quizVars, authVars>>

-----------------------------------------------------------------------------
(* The quiz engine: the content the teachers authored                      *)

Student2 == [role |-> "student", user_id |-> 2]
QuizPrincipals == {Student1, Student2, Teacher, Anonymous}

Quizzes == {1, 2, 3}

\* submission ids a request may name: those that can exist, and one more
QuizSubIds == 1..(MaxQuizSubs + 1)

\* (quiz_id, question_id) of a submit_answer request: every question under its
\* own quiz, and one question under another quiz
AnswerTargets == {<<1, 1>>, <<1, 2>>, <<2, 3>>, <<2, 4>>, <<1, 3>>}
PassingScore == (1 :> 70) @@ (2 :> 58) @@ (3 :> 70)

\* quiz 1: two questions of 1 point; quiz 2: 29 and 21 points; quiz 3: none
Questions == 1..4
Question ==
    (1 :> [quiz_id |-> 1, question_type |-> "multiple_choice",
           correct_answer |-> <<"A">>, points |-> 1]) @@
    (2 :> [quiz_id |-> 1, question_type |-> "true_false",
           correct_answer |-> <<"T">>, points |-> 1]) @@
    (3 :> [quiz_id |-> 2, question_type |-> "short_answer",
           correct_answer |-> <<"A">>, points |-> 29]) @@
    (4 :> [quiz_id |-> 2, question_type |-> "code",
           correct_answer |-> <<"A">>, points |-> 21])

\* answer_text of a request: "A", "T" and " a". Strings are tuples of
\* characters, so that lower() and strip() do something.
AnswerArgs == {<<"A">>, <<"T">>, <<" ", "a">>}

\* str.lower() on the characters the model uses
LowerChar(c) == IF c = "A" THEN "a" ELSE IF c = "T" THEN "t" ELSE c
Lower(str) == [i \in DOMAIN str |-> LowerChar(str[i])]

\* str.strip(): leading and trailing blanks removed
RECURSIVE LStrip(_)
LStrip(str) ==
    IF str # <<>> /\ Head(str) = " " THEN LStrip(Tail(str)) ELSE str
RECURSIVE RStrip(_)
RStrip(str) ==
    IF str # <<>> /\ str[Len(str)] = " "
    THEN RStrip(SubSeq(str, 1, Len(str) - 1))
    ELSE str
Strip(str) == RStrip(LStrip(str))

\* A mutant of IsCorrect: short answers are compared as they are.
IsCorrectExact(question, answer_text) ==
    question.question_type \in {"multiple_choice", "true_false", "short_answer"}
    /\ answer_text = question.correct_answer

\* The grading of submit_answer: is_correct for a question and an answer_text
\* (str() of a str is the str itself, and every payload of the model is a str).
IsCorrect(question, answer_text) ==
    IF question.question_type = "multiple_choice"
    THEN answer_text = question.correct_answer
    ELSE IF question.question_type = "true_false"
    THEN answer_text = question.correct_answer
    ELSE IF question.question_type = "short_answer"
    THEN Strip(Lower(answer_text)) = Strip(Lower(question.correct_answer))
    ELSE FALSE

PointsEarned(question, answer_text) ==
    IF IsCorrect(question, answer_text) THEN question.points ELSE 0

-----------------------------------------------------------------------------
(* int((total_points / max_score) * 100) in IEEE-754 binary64              *)

RECURSIVE Pow2(_)
Pow2(n) == IF n = 0 THEN 1 ELSE 2 * Pow2(n - 1)

\* 2^e mod m
RECURSIVE PowMod2(_, _)
PowMod2(e, m) == IF e = 0 THEN 1 % m ELSE (2 * PowMod2(e - 1, m)) % m

\* Number of binary digits of k >= 1
RECURSIVE BitLength(_)
BitLength(k) == IF k = 0 THEN 0 ELSE 1 + BitLength(k \div 2)

\* The a with 2^(-a) <= t/m < 2^(1-a), for t, m >= 1
RECURSIVE ExpoBelow(_, _, _)
ExpoBelow(t, m, a) == IF t * Pow2(a) >= m THEN a ELSE ExpoBelow(t, m, a + 1)
RECURSIVE ExpoAbove(_, _, _)
ExpoAbove(t, m, k) == IF m * Pow2(k + 1) <= t THEN ExpoAbove(t, m, k + 1) ELSE k
Expo(t, m) == IF t < m THEN ExpoBelow(t, m, 1) ELSE 0 - ExpoAbove(t, m, 0)

\* floor(100 t / m) on the integers: the percentage without rounding error.
FloorScore(t, m) == (100 * t) \div m

\* int((t / m) * 100) as Python computes it: t / m is rounded to the nearest
\* double q (53 significant bits), q * 100 is rounded again, int() truncates.
\* With S = 52 + Expo(t, m) the significand of q is t * 2^S / m rounded to an
\* integer, and r = t * 2^S mod m tells the direction: q < t/m exactly when
\* 0 < 2r < m, and then q = t/m - r / (m * 2^S) (m < 2^52 leaves no tie).
\* When m does not divide 100 t the two roundings, below 2^-44, cannot reach the
\* next integer, 1/m away. When 100 t / m is an integer k, the product
\* k - 100 r / (m * 2^S) rounds to a double below k exactly when it lies more
\* than half a spacing below k; the spacing of the doubles below k is
\* 2^(j-53), j the bit length of k (2^(j-54) if k is a power of two), and k has
\* an even significand, so a tie rounds to k.
PyScore(t, m) ==
    LET k == (100 * t) \div m
        a == Expo(t, m)
        r == ((t % m) * PowMod2(52 + a, m)) % m
        j == BitLength(k)
        e == IF k = Pow2(j - 1) THEN a + j - 3 ELSE a + j - 2
    IN  IF t = 0 THEN 0
        ELSE IF (100 * t) % m # 0 THEN k
        ELSE IF r = 0 \/ 2 * r >= m THEN k
        ELSE IF 100 * r > m * Pow2(e) THEN k - 1 ELSE k

-----------------------------------------------------------------------------
(* The quiz engine: the handlers                                           *)

\* before: the completed_at the request found in its submission
NoResponse ==
    [op |-> "none", quiz |-> None, sub |-> None, question |-> None,
     answer |-> <<>>, code |-> None, before |-> None]

QuizRejected(op, code) == [NoResponse EXCEPT !.op = op, !.code = code]

\* QuizSubmission(student_id, quiz_id) after commit and refresh
NewQuizSubmission(student_id, quiz_id) ==
    [student_id |-> student_id, quiz_id |-> quiz_id,
     completed_at |-> None, score |-> None, passed |-> FALSE]

\* A mutant of OwnSubmission: the filter on student_id is lost.
AnySubmission(subs, submission_id, user_id) ==
    IF submission_id \in DOMAIN subs THEN submission_id ELSE None

\* filter(QuizSubmission.id == submission_id, student_id == current_user_id).first()
OwnSubmission(subs, submission_id, user_id) ==
    IF submission_id \in DOMAIN subs /\ subs[submission_id].student_id = user_id
    THEN submission_id
    ELSE None

\* filter(QuizQuestion.id == question_id, quiz_id == quiz_id).first()
QuestionOfQuiz(question_id, quiz_id) ==
    IF question_id \in Questions /\ Question[question_id].quiz_id = quiz_id
    THEN question_id
    ELSE None

\* filter(QuizAnswer.submission_id == ..., QuizAnswer.question_id == ...)
AnswerRows(tbl, submission_id, question_id) ==
    {r \in BagToSet(tbl) : r.submission_id = submission_id
                           /\ r.question_id = question_id}

\* Number of rows the table holds for the pair
AnswerCount(tbl, submission_id, question_id) ==
    LET rows == AnswerRows(tbl, submission_id, question_id)
    IN  BagCardinality([r \in rows |-> tbl[r]])

\* A mutant of DeleteAnswer: the old answer is left in the table.
KeepAnswer(tbl, rows) == tbl

\* existing_answer = ....first(); if existing_answer: db.delete(existing_answer)
\* removes one row of the pair, if there is one
DeleteAnswer(tbl, rows) ==
    IF rows = {} THEN tbl
    ELSE tbl (-) SetToBag({CHOOSE r \in rows : TRUE})

NewAnswer(submission_id, question_id, answer_text) ==
    [submission_id |-> submission_id, question_id |-> question_id,
     answer_text |-> answer_text,
     is_correct |-> IsCorrect(Question[question_id], answer_text),
     points_earned |-> PointsEarned(Question[question_id], answer_text)]

\* A mutant of InsertAnswer: quiz_answers has a unique constraint on
\* (submission_id, question_id) and the INSERT of a second row is refused.
InsertAnswerUnique(tbl, row) ==
    IF AnswerRows(tbl, row.submission_id, row.question_id) # {}
    THEN tbl
    ELSE tbl (+) SetToBag({row})

\* db.add(db_answer); db.commit(): the table has a primary key and no other
\* constraint
InsertAnswer(tbl, row) == tbl (+) SetToBag({row})

RECURSIVE SumPoints(_, _)
SumPoints(f, S) ==
    IF S = {} THEN 0
    ELSE LET x == CHOOSE y \in S : TRUE IN f[x] + SumPoints(f, S \ {x})

\* sum(a.points_earned for a in all_answers)
TotalPoints(tbl, submission_id) ==
    SumPoints([r \in BagToSet(tbl) |-> tbl[r] * r.points_earned],
              {r \in BagToSet(tbl) : r.submission_id = submission_id})

\* sum(p[0] for p in max_points) or 1
MaxScore(quiz_id) ==
    LET total == SumPoints([q \in Questions |-> Question[q].points],
                           {q \in Questions : Question[q].quiz_id = quiz_id})
    IN  IF total = 0 THEN 1 ELSE total

\* A mutant of Completed: a second completion adds to the score of the first.
CompletedAccumulates(row, score, passing_score, now) ==
    LET total == IF row.score = None THEN score ELSE row.score + score
    IN  [row EXCEPT !.completed_at = now, !.score = total,
                    !.passed = (total >= passing_score)]

\* A mutant of Completed: the completion forgets the timestamp.
CompletedNoTimestamp(row, score, passing_score, now) ==
    [row EXCEPT !.score = score, !.passed = (score >= passing_score)]

\* submission.completed_at = utcnow(); .score = score; .passed = score >= passing
Completed(row, score, passing_score, now) ==
    [row EXCEPT !.completed_at = now, !.score = score,
                !.passed = (score >= passing_score)]

\* POST /api/quizzes/{quiz_id}/start
start_quiz(who, quiz_id) ==
    /\ IF who.role # "student"
       THEN /\ qresp' = QuizRejected("start", 403)
            /\ UNCHANGED <<quizSubs, clock>>
       ELSE IF quiz_id \notin Quizzes \/ who.user_id \notin Students
       THEN /\ qresp' = QuizRejected("start", 404)
            /\ UNCHANGED <<quizSubs, clock>>
       ELSE /\ clock < MaxQuizRequests
            /\ Len(quizSubs) < MaxQuizSubs
            /\ clock' = clock + 1
            /\ quizSubs' = Append(quizSubs, NewQuizSubmission(who.user_id, quiz_id))
            /\ qresp' = [NoResponse EXCEPT !.op = "start", !.quiz = quiz_id,
                            !.sub = Len(quizSubs) + 1, !.code = 201]
    /\ UNCHANGED <<answers, submissions, progress, hist, tasks, last, escaped,
                   transportUp, workers>>
    /\ UNCHANGED <<kafkaVars, authVars>>

\* POST /api/quizzes/{quiz_id}/submissions/{submission_id}/answer
submit_answer(who, quiz_id, submission_id, question_id, answer_text) ==
    /\ IF who.role # "student"
       THEN /\ qresp' = QuizRejected("answer", 403)
            /\ UNCHANGED <<answers, clock>>
       ELSE IF \/ OwnSubmission(quizSubs, submission_id, who.user_id) = None
               \/ QuestionOfQuiz(question_id, quiz_id) = None
       THEN /\ qresp' = QuizRejected("answer", 404)
            /\ UNCHANGED <<answers, clock>>
       ELSE /\ clock < MaxQuizRequests
            /\ clock' = clock + 1
            /\ answers' =
                  InsertAnswer(
                     DeleteAnswer(answers,
                                  AnswerRows(answers, submission_id, question_id)),
                     NewAnswer(submission_id, question_id, answer_text))
            /\ qresp' = [op |-> "answer", quiz |-> quiz_id, sub |-> submission_id,
                         question |-> question_id, answer |-> answer_text,
                         code |-> 201,
                         before |-> quizSubs[submission_id].completed_at]
    /\ UNCHANGED <<quizSubs, submissions, progress, hist, tasks, last, escaped,
                   transportUp, workers>>
    /\ UNCHANGED <<kafkaVars, authVars>>

\* POST /api/quizzes/{quiz_id}/submissions/{submission_id}/complete
complete_quiz(who, quiz_id, submission_id) ==
    /\ IF who.role # "student"
       THEN /\ qresp' = QuizRejected("complete", 403)
            /\ UNCHANGED <<quizSubs, clock>>
       ELSE IF \/ OwnSubmission(quizSubs, submission_id, who.user_id) = None
               \/ quiz_id \notin Quizzes
       THEN /\ qresp' = QuizRejected("complete", 404)
            /\ UNCHANGED <<quizSubs, clock>>
       ELSE LET score == PyScore(TotalPoints(answers, submission_id),
                                 MaxScore(quiz_id))
            IN  /\ clock < MaxQuizRequests
                /\ clock' = clock + 1
                /\ quizSubs' = [quizSubs EXCEPT ![submission_id] =
                       Completed(@, score, PassingScore[quiz_id], clock + 1)]
                /\ qresp' = [NoResponse EXCEPT !.op = "complete", !.quiz = quiz_id,
                                !.sub = submission_id, !.code = 200,
                                !.before = quizSubs[submission_id].completed_at]
    /\ UNCHANGED <<answers, submissions, progress, hist, tasks, last, escaped,
                   transportUp, workers>>
    /\ UNCHANGED <<kafkaVars, authVars>>

-----------------------------------------------------------------------------
\* No registration has been answered yet.
NoRegistration == [email |-> "none", code |-> None, exc |-> "none"]

InitDb ==
    /\ submissions = <<>>
    /\ progress = <<>>
    /\ clock = 0
    /\ hist = [p \in Pairs |-> [calls |-> 0, best |-> None]]

InitKafka ==
    /\ producer = None
    /\ isDisabled = FALSE
    /\ created = 0
    /\ started = {}
    /\ stopped = {}
    /\ sent = 0
    /\ closed = FALSE
    /\ escaped = "none"

InitIdle ==
    /\ tasks = [t \in Tasks |-> IdleTask]
    /\ last = Answer("none", None)
    /\ workers = [w \in Workers |-> IdleWorker]
    /\ quizSubs = <<>>
    /\ answers = EmptyBag
    /\ qresp = NoResponse
    /\ students = <<>>
    /\ regResp = NoRegistration

Init == InitDb /\ InitKafka /\ InitIdle /\ transportUp \in BOOLEAN

\* One request at a time: the handlers of successive requests.
Next ==
    \/ \E who \in Principals, s \in Students \cup {2}, e \in Exercises \cup {2} :
          CreateSubmission(1, who, s, e)
    \/ \E who \in Principals, id \in 1..(MaxSubmissions + 1),
          st \in StatusArgs, sc \in ScoreArgs :
          EvaluateSubmission(1, who, id, st, sc)
    \/ PublishBegin(1)
    \/ StartDone(1)
    \/ SendDone(1)
    \/ CloseProducer
    \/ TransportFlip

Spec == Init /\ [][Next]_vars

\* Requests that overlap: every task of the event loop may run a handler. The
\* evaluations all carry the same outcome, which keeps the tables small.
NextLoop ==
    \/ \E t \in Tasks, who \in Principals, s \in Students \cup {2},
          e \in Exercises \cup {2} :
          CreateSubmission(t, who, s, e)
    \/ \E t \in Tasks, who \in Principals, id \in 1..(MaxSubmissions + 1) :
          EvaluateSubmission(t, who, id, "passing", 80)
    \/ \E t \in Tasks : PublishBegin(t)
    \/ \E t \in Tasks : StartDone(t)
    \/ \E t \in Tasks : SendDone(t)
    \/ CloseProducer
    \/ TransportFlip

SpecLoop == Init /\ [][NextLoop]_vars

\* Workers start from a database that holds one submission and no Progress row.
InitRace ==
    /\ submissions = <<NewSubmission(1, 1)>>
    /\ progress = <<>>
    /\ clock = 0
    /\ hist = [p \in Pairs |-> [calls |-> 0, best |-> None]]
    /\ InitKafka /\ InitIdle /\ transportUp = TRUE

NextRace ==
    \/ \E w \in Workers, st \in StatusArgs, sc \in ScoreArgs :
          RaceQuery(w, 1, st, sc)
    \/ \E w \in Workers : RaceInsert(w)
    \/ \E w \in Workers : RaceCommit(w)

SpecRace == InitRace /\ [][NextRace]_vars

InitQuiz == InitDb /\ InitKafka /\ InitIdle /\ transportUp = TRUE

\* Student 1 sends every request the interface allows; the requests of the
\* other principals are rejected whatever their arguments.
NextQuiz ==
    \/ \E q \in Quizzes \cup {4} : start_quiz(Student1, q)
    \/ \E who \in QuizPrincipals \ {Student1} : start_quiz(who, 1)
    \/ \E tg \in AnswerTargets, id \in QuizSubIds, a \in AnswerArgs :
          submit_answer(Student1, tg[1], id, tg[2], a)
    \/ \E who \in QuizPrincipals \ {Student1} :
          submit_answer(who, 1, 1, 1, <<"A">>)
    \/ \E q \in Quizzes \cup {4}, id \in QuizSubIds :
          complete_quiz(Student1, q, id)
    \/ \E who \in QuizPrincipals \ {Student1} : complete_quiz(who, 1, 1)

SpecQuiz == InitQuiz /\ [][NextQuiz]_vars

-----------------------------------------------------------------------------
(* submit_answer in request-parallel workers                               *)

MaxAnswerRequests == 3

\* submit_answer up to the end of its queries: existing holds the QuizAnswer
\* the session loaded (.first() of the rows of the pair, in no stated order)
\* and is empty if there is none; gone turns TRUE when another session deletes
\* that row.
AnswerQuery(w, who, quiz_id, submission_id, question_id, answer_text) ==
    /\ workers[w].pc = "idle"
    /\ who.role = "student"
    /\ OwnSubmission(quizSubs, submission_id, who.user_id) # None
    /\ QuestionOfQuiz(question_id, quiz_id) # None
    /\ clock < MaxAnswerRequests
    /\ clock' = clock + 1
    /\ LET rows == AnswerRows(answers, submission_id, question_id)
       IN  \E loaded \in (IF rows = {} THEN {{}} ELSE {{r} : r \in rows}) :
              workers' = [workers EXCEPT ![w] =
                 [pc |-> "answer", quiz |-> quiz_id, sub |-> submission_id,
                  question |-> question_id, answer |-> answer_text,
                  existing |-> loaded, gone |-> FALSE]]
    /\ UNCHANGED <<quizSubs, answers, qresp, submissions, progress, hist, tasks,
                   last, escaped, transportUp>>
    /\ UNCHANGED <<kafkaVars, authVars>>

\* The rest of submit_answer: db.delete(existing_answer) if one was loaded,
\* db.add(db_answer), db.commit(). The DELETE of a row that another session
\* has deleted meanwhile matches nothing and raises nothing. A session that
\* loaded the row this commit deletes has lost it; when the table holds several
\* equal rows, it may have loaded another of them.
AnswerCommit(w) ==
    /\ workers[w].pc = "answer"
    /\ LET wk      == workers[w]
           deletes == wk.existing # {} /\ ~wk.gone
           copies  == IF deletes
                      THEN CopiesIn(CHOOSE r \in wk.existing : TRUE, answers)
                      ELSE 0
       IN  /\ answers' =
                 InsertAnswer(
                    DeleteAnswer(answers, IF deletes THEN wk.existing ELSE {}),
                    NewAnswer(wk.sub, wk.question, wk.answer))
           /\ qresp' = [op |-> "answer", quiz |-> wk.quiz, sub |-> wk.sub,
                        question |-> wk.question, answer |-> wk.answer,
                        code |-> 201,
                        before |-> quizSubs[wk.sub].completed_at]
           /\ \E lost \in (IF copies > 1 THEN BOOLEAN ELSE {TRUE}) :
                 workers' = [u \in Workers |->
                    IF u = w THEN IdleWorker
                    ELSE IF /\ deletes /\ lost
                            /\ workers[u].pc = "answer"
                            /\ workers[u].existing = wk.existing
                            /\ ~workers[u].gone
                         THEN [workers[u] EXCEPT !.gone = TRUE]
                         ELSE workers[u]]
    /\ UNCHANGED <<quizSubs, clock, submissions, progress, hist, tasks, last,
                   escaped, transportUp>>
    /\ UNCHANGED <<kafkaVars, authVars>>

\* The database holds one submission that student 1 started.
InitAnswers ==
    /\ InitKafka /\ transportUp = TRUE
    /\ submissions = <<>> /\ progress = <<>> /\ clock = 0
    /\ hist = [p \in Pairs |-> [calls |-> 0, best |-> None]]
    /\ tasks = [t \in Tasks |-> IdleTask]
    /\ last = Answer("none", None)
    /\ workers = [w \in Workers |-> IdleWorker]
    /\ \E q \in {1, 2} : quizSubs = <<NewQuizSubmission(1, q)>>
    /\ answers = EmptyBag
    /\ qresp = NoResponse
    /\ students = <<>>
    /\ regResp = NoRegistration

NextAnswers ==
    \/ \E w \in Workers, tg \in AnswerTargets, a \in AnswerArgs :
          AnswerQuery(w, Student1, tg[1], 1, tg[2], a)
    \/ \E w \in Workers : AnswerCommit(w)
    \/ \E q \in {1, 2} : complete_quiz(Student1, q, 1)

SpecAnswers == InitAnswers /\ [][NextAnswers]_vars

-----------------------------------------------------------------------------
(* Requests as they arrive over HTTP: the identity is what                 *)
(* get_current_user_payload makes of the path and the X-Session-ID header. *)

\* Paths are tuples of segments; the id segments are immaterial here.
CreatePath   == <<"api", "submissions">>
EvaluatePath == <<"api", "submissions", "id", "evaluate">>
StartPath    == <<"api", "quizzes", "id", "start">>
AnswerPath   == <<"api", "quizzes", "id", "submissions", "id", "answer">>
CompletePath == <<"api", "quizzes", "id", "submissions", "id", "complete">>

\* protected_endpoints of get_current_user_payload
ProtectedEndpoints ==
    {<<"api", "auth", "me">>, <<"api", "auth", "change-password">>,
     <<"api", "auth", "me", "teacher">>, <<"api", "quizzes", "teacher">>,
     <<"api", "quizzes">>, <<"api", "analytics", "students">>,
     <<"api", "analytics", "student">>, <<"api", "topics">>,
     <<"api", "exercises">>, <<"api", "chat", "sessions">>,
     <<"api", "chat", "messages">>}

\* request.url.path.startswith(ep)
StartsWith(path, ep) ==
    Len(ep) <= Len(path) /\ SubSeq(path, 1, Len(ep)) = ep

\* any(path.startswith(ep) for ep in protected_endpoints) or "/teacher" in path
IsProtected(path) ==
    \/ \E ep \in ProtectedEndpoints : StartsWith(path, ep)
    \/ \E i \in DOMAIN path : path[i] = "teacher"

\* The X-Session-ID header "ROLE|USERID|EMAIL" as (role, user_id), or no header.
NoSession == [role |-> "none", user_id |-> 0]
Sessions == {NoSession, Student1, Teacher}

\* What get_current_user_payload raises for a protected path without a header:
\* HTTPException 401.
Unauthenticated == [role |-> "unauthenticated", user_id |-> 0]

\* The payload for a request: the session on a protected path, the anonymous
\* payload on any other path.
get_current_user_payload(path, session) ==
    IF IsProtected(path)
    THEN IF session = NoSession THEN Unauthenticated ELSE session
    ELSE Anonymous

\* The submission routes with every session, the quiz routes with the session
\* of student 1.
NextHttp ==
    \/ \E session \in Sessions, s \in Students \cup {2}, e \in Exercises \cup {2} :
          CreateSubmission(1, get_current_user_payload(CreatePath, session), s, e)
    \/ \E session \in Sessions, id \in 1..(MaxSubmissions + 1),
          st \in StatusArgs, sc \in ScoreArgs :
          EvaluateSubmission(1, get_current_user_payload(EvaluatePath, session),
                             id, st, sc)
    \/ \E q \in Quizzes \cup {4} :
          start_quiz(get_current_user_payload(StartPath, Student1), q)
    \/ \E tg \in AnswerTargets, id \in QuizSubIds, a \in AnswerArgs :
          submit_answer(get_current_user_payload(AnswerPath, Student1),
                        tg[1], id, tg[2], a)
    \/ \E q \in Quizzes \cup {4}, id \in QuizSubIds :
          complete_quiz(get_current_user_payload(CompletePath, Student1), q, id)

SpecHttp == InitQuiz /\ [][NextHttp]_vars

-----------------------------------------------------------------------------
(* POST /api/auth/register in request-parallel workers                     *)

MaxRegRequests == 4

Emails == {"a@x", "b@x", "c@x"}

\* Student(email=...): the columns other than email play no part here.
NewStudent(email) == [email |-> email]

\* db.query(Student).filter(Student.email == email).first()
ExistingStudent(tbl, email) ==
    LET rows == {i \in DOMAIN tbl : tbl[i].email = email}
    IN  IF rows = {} THEN None
        ELSE CHOOSE i \in rows : \A j \in rows : i <= j

\* A mutant of UniqueEmail: the column carries no unique constraint.
NoUniqueEmail(tbl, email) == FALSE

\* email = Column(String(255), unique=True, ...): does the INSERT of a row with
\* this e-mail violate the constraint
UniqueEmail(tbl, email) == \E i \in DOMAIN tbl : tbl[i].email = email

\* What the route answers when register_student raised exc.
RegisterCode(exc) ==
    IF exc = "none" THEN 201
    ELSE IF exc = "ValueError" THEN 400
    ELSE 500

\* register_student up to the end of its query
RegisterQuery(w, email) ==
    /\ workers[w].pc = "idle"
    /\ clock < MaxRegRequests
    /\ clock' = clock + 1
    /\ IF ExistingStudent(students, email) # None
       THEN \* raise ValueError("Email already registered")
            /\ regResp' = [email |-> email, code |-> RegisterCode("ValueError"),
                           exc |-> "ValueError"]
            /\ UNCHANGED workers
       ELSE /\ workers' = [workers EXCEPT ![w] = [pc |-> "add", email |-> email]]
            /\ UNCHANGED regResp
    /\ UNCHANGED <<students, hist, tasks, last, escaped, transportUp>>
    /\ UNCHANGED <<dbVars, kafkaVars, quizVars>>

\* db.add(db_student); db.commit(): the INSERT succeeds, or it raises
\* IntegrityError, which is rolled back and raised again as ValueError
RegisterCommit(w) ==
    /\ workers[w].pc = "add"
    /\ LET email == workers[w].email
       IN  IF UniqueEmail(students, email)
           THEN /\ regResp' = [email |-> email, code |-> RegisterCode("ValueError"),
                               exc |-> "IntegrityError"]
                /\ UNCHANGED students
           ELSE /\ students' = Append(students, NewStudent(email))
                /\ regResp' = [email |-> email, code |-> RegisterCode("none"),
                               exc |-> "none"]
    /\ workers' = [workers EXCEPT ![w] = IdleWorker]
    /\ UNCHANGED <<clock, hist, tasks, last, escaped, transportUp>>
    /\ UNCHANGED <<dbVars, kafkaVars, quizVars>>

NextRegister ==
    \/ \E w \in Workers, email \in Emails : RegisterQuery(w, email)
    \/ \E w \in Workers : RegisterCommit(w)

SpecRegister == InitQuiz /\ [][NextRegister]_vars

-----------------------------------------------------------------------------
(* Properties of the progress rollup and of the notifier                   *)

\* C1: for a pair whose Progress row was absent, after N update_progress calls
\* that do not overlap the row exists, attempts = N and best_score is the
\* largest score passed (None if no call passed one).
C1_AttemptsAndBestScore ==
    \A p \in Pairs :
        LET rows == ProgressRows(progress, p[1], p[2])
        IN  IF hist[p].calls = 0
            THEN rows = {}
            ELSE /\ Cardinality(rows) = 1
                 /\ \A i \in rows :
                       /\ progress[i].attempts = hist[p].calls
                       /\ progress[i].best_score = hist[p].best

\* Two calls were made, the later with the lower score: the best one stays.
C1_Witness ==
    /\ hist[<<1, 1>>].calls = 2
    /\ progress[1].best_score = 80
    /\ submissions[1].score = 60

\* C7: once evaluate_submission has committed and is at its notifications,
\* nothing the notifier does (a failed connection, a disabled notifier, a failed
\* send) changes the submission or progress rows, which hold the evaluation, and
\* the handler answers 200.
C7_OutageLeavesEvaluationIntact ==
    [][tasks[1].pc # "idle" /\ tasks[1].kind = "evaluate" =>
         LET ev == Head(tasks[1].events)
             i  == FirstProgress(progress, ev.student_id, ev.exercise_id)
         IN  /\ i # None
             /\ progress[i].status = ev.status
             /\ submissions[tasks[1].sub].status = ev.status
             /\ UNCHANGED dbVars
             /\ (tasks'[1].pc = "idle" => last' = Answer("evaluate", 200))]_vars

\* An evaluation was answered 200 although the connection attempt had failed and
\* no event was ever delivered.
C7_Witness ==
    /\ last = Answer("evaluate", 200)
    /\ isDisabled
    /\ sent = 0
    /\ tasks[1].pc = "idle"
    /\ progress # <<>> /\ progress[1].attempts = 2

\* C8: no exception ever leaves publish_event, and so no handler answers 500
\* because of the notifier.
C8_PublishNeverRaises ==
    /\ escaped = "none"
    /\ last.resp # 500

\* A handler returned although a send had failed: nothing was delivered, and the
\* notifier is not disabled.
C8_Witness ==
    /\ last.resp \in {200, 201}
    /\ sent = 0
    /\ created > 0
    /\ ~isDisabled
    /\ \A t \in Tasks : tasks[t].pc = "idle"

\* C9: once a connection attempt has failed the notifier stays disabled: the
\* flag stays set, no producer is cached or constructed, no connection is
\* attempted, and a publish_event call that begins from then on returns in one
\* step without sending.
C9_DisabledForGood ==
    [][isDisabled =>
         /\ isDisabled'
         /\ producer' = None
         /\ created' = created
         /\ \A t \in Tasks :
               tasks[t].pc = "publish" /\ tasks'[t] # tasks[t] =>
                  /\ sent' = sent
                  /\ tasks'[t].pc \in {"publish", "idle"}]_vars

\* A publish_event call is about to begin on a disabled notifier, after the
\* broker has come back and after close_producer.
C9_Witness ==
    /\ isDisabled
    /\ transportUp
    /\ closed
    /\ \E t \in Tasks : tasks[t].pc = "publish"

\* C2: over the lifetime of a Progress row best_score never decreases (once set
\* it neither shrinks nor becomes None) and attempts never decreases from one
\* persisted state to the next, also when the requests overlap.
C2_ProgressMonotone ==
    [][\A i \in DOMAIN progress :
          /\ progress'[i].attempts >= progress[i].attempts
          /\ progress'[i].best_score >= progress[i].best_score]_vars

\* C3: the progress table holds at most one row per (student, exercise), also
\* when the requests overlap.
C3_OneRowPerPair ==
    \A p \in Pairs : Cardinality(ProgressRows(progress, p[1], p[2])) <= 1

-----------------------------------------------------------------------------
(* Properties of the quiz engine                                           *)

\* C4: the table holds at most one QuizAnswer per (submission, question) in
\* every state, and after a submit_answer call that was accepted exactly one
\* row exists for its pair, holding the payload of that call and its grading.
C4_OneAnswerPerPair ==
    /\ \A id \in QuizSubIds, qn \in Questions :
          AnswerCount(answers, id, qn) <= 1
    /\ qresp.op = "answer" /\ qresp.code = 201 =>
          /\ AnswerCount(answers, qresp.sub, qresp.question) = 1
          /\ \A r \in AnswerRows(answers, qresp.sub, qresp.question) :
                /\ r.answer_text = qresp.answer
                /\ r.is_correct =
                      IsCorrect(Question[qresp.question], qresp.answer)
                /\ r.points_earned =
                      PointsEarned(Question[qresp.question], qresp.answer)

\* Question 1 was answered twice, the second time wrongly: the one row left
\* is the answer of the second call.
C4_Witness ==
    /\ qresp.op = "answer" /\ qresp.code = 201
    /\ qresp.sub = 1 /\ qresp.question = 1
    /\ qresp.answer = <<"T">>
    /\ clock = 3
    /\ Len(quizSubs) = 1 /\ quizSubs[1].completed_at = None
    /\ BagCardinality(answers) = 1

\* C5: a complete_quiz call made under the quiz of the submission stores
\* score = floor(100 * earned / max), computed on integers, and
\* passed = (score >= passing_score).
C5_ScoreIsFloorOfPercentage ==
    qresp.op = "complete" /\ qresp.code = 200
    /\ quizSubs[qresp.sub].quiz_id = qresp.quiz =>
       LET row == quizSubs[qresp.sub]
           score == FloorScore(TotalPoints(answers, qresp.sub),
                               MaxScore(qresp.quiz))
       IN  /\ row.score = score
           /\ row.passed = (score >= PassingScore[qresp.quiz])

\* C6: every QuizSubmission whose score is set has a score in 0..100.
C6_ScoreWithinPercent ==
    \A i \in DOMAIN quizSubs :
        quizSubs[i].score # None => quizSubs[i].score \in 0..100

\* C10: a QuizSubmission that is not completed has no score and has not passed.
C10_NothingSetBeforeCompletion ==
    \A i \in DOMAIN quizSubs :
        quizSubs[i].completed_at = None =>
            /\ quizSubs[i].score = None
            /\ quizSubs[i].passed = FALSE

\* Both questions of quiz 1 were answered rightly, and the submission is still
\* not completed.
C10_Witness ==
    /\ qresp.op = "answer" /\ qresp.code = 201
    /\ Len(quizSubs) = 1 /\ quizSubs[1].completed_at = None
    /\ quizSubs[1].quiz_id = 1
    /\ TotalPoints(answers, 1) = 2
    /\ BagCardinality(answers) = 2

\* C11: once a QuizSubmission is completed, no request changes its row (score,
\* passed, completed_at) or its QuizAnswer rows.
C11_CompletedIsFinal ==
    [][\A i \in DOMAIN quizSubs :
          quizSubs[i].completed_at # None =>
             /\ quizSubs'[i] = quizSubs[i]
             /\ \A qn \in Questions :
                   AnswerRows(answers', i, qn) = AnswerRows(answers, i, qn)]_vars

\* C12: a complete_quiz call that follows at once a complete_quiz call with the
\* same quiz_id and submission_id stores the score and the passed value the
\* first one stored.
C12_CompleteTwiceSameResult ==
    [][/\ qresp.op = "complete" /\ qresp.code = 200
       /\ qresp'.op = "complete" /\ qresp'.code = 200
       /\ qresp'.sub = qresp.sub /\ qresp'.quiz = qresp.quiz
       /\ clock' = clock + 1
       => /\ quizSubs'[qresp.sub].score = quizSubs[qresp.sub].score
          /\ quizSubs'[qresp.sub].passed = quizSubs[qresp.sub].passed]_vars

\* One of the two questions of quiz 1 was answered rightly and the submission
\* was completed at time 3 and again at time 4: the score is 50.
C12_Witness ==
    /\ qresp.op = "complete" /\ qresp.code = 200 /\ qresp.quiz = 1
    /\ qresp.before = 3
    /\ quizSubs[1].completed_at = 4
    /\ quizSubs[1].score = 50 /\ quizSubs[1].passed = FALSE
    /\ BagCardinality(answers) = 1

\* C13: a complete_quiz call that was accepted on a submission of a quiz that
\* has no questions has stored score = 0 and passed = (0 >= passing_score).
C13_EmptyQuizScoresZero ==
    qresp.op = "complete" /\ qresp.code = 200
    /\ quizSubs[qresp.sub].quiz_id = qresp.quiz
    /\ {qn \in Questions : Question[qn].quiz_id = qresp.quiz} = {} =>
       /\ quizSubs[qresp.sub].score = 0
       /\ quizSubs[qresp.sub].passed = (0 >= PassingScore[qresp.quiz])

-----------------------------------------------------------------------------
(* Properties of the status columns                                        *)

\* C14: the status of every Progress row is one of not_started, in_progress,
\* completed, mastered.
C14_ProgressStatusDomain ==
    \A i \in DOMAIN progress :
        progress[i].status \in {"not_started", "in_progress", "completed", "mastered"}

\* C15: the status of every ExerciseSubmission is one of draft, submitted,
\* passing, failing.
C15_SubmissionStatusDomain ==
    \A i \in DOMAIN submissions :
        submissions[i].status \in {"draft", "submitted", "passing", "failing"}

\* C16: an ExerciseSubmission whose completed_at is set has a terminal status,
\* passing or failing.
C16_CompletedAtMeansTerminal ==
    \A i \in DOMAIN submissions :
        submissions[i].completed_at # None =>
            submissions[i].status \in {"passing", "failing"}

-----------------------------------------------------------------------------
(* Properties of evaluate_submission                                       *)

C18_EvaluationUpdatesProgressAndNotifies ==
    [][/\ tasks[1].pc = "idle" /\ tasks'[1].pc = "publish"
          /\ tasks'[1].kind = "evaluate" =>
             LET id  == tasks'[1].sub
                 row == submissions'[id]
                 evs == tasks'[1].events
                 i   == FirstProgress(progress', row.student_id, row.exercise_id)
                 j   == FirstProgress(progress, row.student_id, row.exercise_id)
             IN  /\ i # None
                 /\ progress'[i].status = row.status
                 /\ progress'[i].attempts = (IF j = None THEN 0
                                             ELSE progress[j].attempts) + 1
                 /\ Len(evs) = 2
                 /\ evs[1].topic = "exercise-submissions"
                 /\ evs[1].submission_id = id
                 /\ evs[2].topic = "progress-updates"
                 /\ \A k \in 1..2 :
                       /\ evs[k].student_id = row.student_id
                       /\ evs[k].exercise_id = row.exercise_id
                       /\ evs[k].status = row.status
                 /\ evs[2].score # None =>
                       /\ row.score = evs[2].score
                       /\ progress'[i].best_score >= evs[2].score
       /\ tasks[1].pc # "idle" /\ tasks[1].kind = "evaluate"
          /\ tasks'[1].events # tasks[1].events =>
             /\ tasks[1].pc \in {"publish", "start", "send"}
             /\ \/ tasks'[1].events = Tail(tasks[1].events)
                \/ Len(tasks[1].events) = 1 /\ tasks'[1] = IdleTask]_vars

\* The submission was evaluated as passing with score 80 and the handler has
\* returned: the creation event and the two events of the evaluation were
\* delivered.
C18_Witness ==
    /\ last = Answer("evaluate", 200)
    /\ tasks[1].pc = "idle"
    /\ sent = 3
    /\ submissions[1].status = "passing" /\ submissions[1].score = 80
    /\ progress[1].status = "passing" /\ progress[1].best_score = 80

-----------------------------------------------------------------------------
(* The quiz engine: notifications and ownership                            *)

\* C19: a submit_answer or complete_quiz request that was accepted hands an
\* event to publish_event, as create_submission and evaluate_submission do.
C19_QuizActionsNotify ==
    [][/\ qresp'.op \in {"answer", "complete"}
       /\ qresp'.code \in {200, 201}
       /\ clock' = clock + 1
       => \E t \in Tasks :
             /\ tasks'[t].pc = "publish"
             /\ tasks'[t].events # <<>>]_vars

\* C20: a submit_answer or complete_quiz request on a QuizSubmission by a
\* principal who is not the student owning it is rejected and changes neither
\* the submission nor any QuizAnswer row: no step that a request was accepted in
\* is the step of such a principal's request, and a request that is rejected
\* changes no row.
C20_OnlyTheOwnerWrites ==
    [][/\ qresp'.op \in {"answer", "complete"} /\ qresp'.code \in {200, 201} =>
             \A who \in QuizPrincipals :
                who.role # "student"
                \/ who.user_id # quizSubs[qresp'.sub].student_id =>
                   /\ ~ submit_answer(who, qresp'.quiz, qresp'.sub,
                                      qresp'.question, qresp'.answer)
                   /\ ~ complete_quiz(who, qresp'.quiz, qresp'.sub)
       /\ qresp'.code \in {401, 403, 404} => UNCHANGED <<quizSubs, answers>>]_vars

\* A principal who is not a student asked to complete submission 1, which holds
\* one answer: the request was answered 403 and the submission is not completed.
C20_Witness ==
    /\ qresp = QuizRejected("complete", 403)
    /\ Len(quizSubs) = 1 /\ quizSubs[1].completed_at = None
    /\ BagCardinality(answers) = 1

-----------------------------------------------------------------------------
(* The grading of answers                                                  *)

\* C21: every stored QuizAnswer is graded by the type of its question:
\* multiple_choice and true_false are correct iff the answer equals
\* correct_answer, short_answer iff the two are equal after lower-casing and
\* trimming, any other type never; points_earned is the points of the question
\* if correct and 0 otherwise.
C21_GradingByQuestionType ==
    \A r \in BagToSet(answers) :
        LET q == Question[r.question_id]
        IN  /\ q.question_type \in {"multiple_choice", "true_false"} =>
                  (r.is_correct <=> r.answer_text = q.correct_answer)
            /\ q.question_type = "short_answer" =>
                  (r.is_correct <=>
                      Strip(Lower(r.answer_text)) = Strip(Lower(q.correct_answer)))
            /\ q.question_type \notin
                  {"multiple_choice", "true_false", "short_answer"} =>
                  ~ r.is_correct
            /\ r.points_earned = (IF r.is_correct THEN q.points ELSE 0)
            /\ 0 <= r.points_earned /\ r.points_earned <= q.points

\* The short answer " a" was graded right against "A" and earned the 29 points;
\* the answer "A" to the code question, equal to its correct_answer, earned 0.
C21_Witness ==
    /\ \E r \in BagToSet(answers) :
          /\ r.question_id = 3 /\ r.answer_text = <<" ", "a">>
          /\ r.is_correct /\ r.points_earned = 29
    /\ \E r \in BagToSet(answers) :
          /\ r.question_id = 4 /\ r.answer_text = <<"A">>
          /\ ~ r.is_correct /\ r.points_earned = 0

-----------------------------------------------------------------------------
(* Requests over HTTP                                                      *)

\* C22: a create_submission request sent by a student for their own id and an
\* existing exercise adds exactly one ExerciseSubmission of that student and
\* exercise, with status submitted, no score and no completed_at, and changes
\* no Progress row.
C22_StudentCreatesSubmission ==
    [][\A s \in Students, e \in Exercises :
          CreateSubmission(1,
              get_current_user_payload(CreatePath,
                  [role |-> "student", user_id |-> s]), s, e) =>
             /\ submissions' = Append(submissions,
                   [student_id |-> s, exercise_id |-> e, status |-> "submitted",
                    score |-> None, completed_at |-> None])
             /\ progress' = progress]_vars

-----------------------------------------------------------------------------
(* The completion timestamp of a Progress row                              *)

\* C23: once the completed_at of a Progress row is set, no later
\* update_progress call changes it.
C23_ProgressCompletedOnce ==
    [][\A i \in DOMAIN progress :
          progress[i].completed_at # None =>
             progress'[i].completed_at = progress[i].completed_at]_vars

-----------------------------------------------------------------------------
(* Registration                                                            *)

\* C24: no two students share an e-mail address, and a registration with an
\* e-mail that is registered already, at its query or at its commit, is answered
\* 400 and leaves the students as they are.
C24_EmailsUnique ==
    /\ [](\A i, j \in DOMAIN students :
             students[i].email = students[j].email => i = j)
    /\ [][/\ \A w \in Workers, e \in Emails :
                RegisterQuery(w, e) /\ ExistingStudent(students, e) # None =>
                    /\ regResp'.code = 400
                    /\ students' = students
          /\ \A w \in Workers :
                /\ RegisterCommit(w)
                /\ ExistingStudent(students, workers[w].email) # None
                => /\ regResp'.code = 400
                   /\ students' = students]_vars

\* Two registrations with one e-mail overlapped: the second passed the query,
\* and its commit was refused by the constraint.
C24_Witness ==
    /\ regResp.exc = "IntegrityError"
    /\ regResp.code = 400
    /\ \E i \in DOMAIN students : students[i].email = regResp.email

-----------------------------------------------------------------------------
(* Persistence and notification                                            *)

-----------------------------------------------------------------------------
(* Evaluation under request-parallel workers                               *)

\* C26: the tables never hold an evaluated submission without the Progress
\* update that belongs to it, nor a Progress row that has attempts = 0 and the
\* placeholder status in_progress.
C26_EvaluationIsOneTransaction ==
    /\ \A i \in DOMAIN submissions :
          submissions[i].status # "submitted" =>
             \E j \in ProgressRows(progress, submissions[i].student_id,
                                   submissions[i].exercise_id) :
                progress[j].attempts >= 1
    /\ \A j \in DOMAIN progress :
          ~(progress[j].attempts = 0 /\ progress[j].status = "in_progress")


\* C27: update_progress writes what it computed from the row it read: its
\* commit stores the attempts it loaded plus one, and the score it was passed
\* when that exceeds the best score it loaded, whatever the row holds by then;
\* so two calls that overlap on one row can lose an update.
C27_CommitWritesFromItsOwnRead ==
    [][\A w \in Workers :
          workers[w].pc = "loaded" /\ workers'[w].pc = "idle" =>
             LET wk == workers[w]
             IN  /\ progress'[wk.id].attempts = wk.row.attempts + 1
                 /\ NewBestScore(wk.row.best_score, wk.score) # wk.row.best_score
                    => progress'[wk.id].best_score = wk.score]_vars

\* Three calls on one row have committed, two of them overlapping: attempts
\* has grown by two only and best_score is below the largest score passed.
C27_Witness ==
    /\ \A w \in Workers : workers[w].pc = "idle"
    /\ Len(progress) = 1
    /\ hist[<<1, 1>>].calls = 3
    /\ progress[1].attempts = 2
    /\ hist[<<1, 1>>].best = 80
    /\ progress[1].best_score = 60

-----------------------------------------------------------------------------
(* Answers under request-parallel workers                                  *)

\* C28: the commit of submit_answer deletes at most the row its session
\* loaded and always inserts its own, whatever the table holds by then; so two
\* requests that read the same state both insert.
C28_InsertWhateverTheTableHolds ==
    [][\A w \in Workers :
          workers[w].pc = "answer" /\ workers'[w].pc = "idle" =>
             LET wk == workers[w]
             IN  AnswerCount(answers', wk.sub, wk.question) =
                    AnswerCount(answers, wk.sub, wk.question) + 1
                    - (IF wk.existing # {} /\ ~wk.gone THEN 1 ELSE 0)]_vars

\* Both requests have committed, the table holds two rows for question 3 of
\* the submission, and complete_quiz has summed both: 58 points of 50.
C28_Witness ==
    /\ \A w \in Workers : workers[w].pc = "idle"
    /\ AnswerCount(answers, 1, 3) = 2
    /\ quizSubs[1].completed_at # None
    /\ quizSubs[1].score = PyScore(58, 50)

-----------------------------------------------------------------------------
(* The quiz a submission belongs to                                        *)

\* C29: every answer stored under a submission is to a question of the quiz
\* the submission was started for, and an accepted complete_quiz names that
\* quiz, so that the maximum is the sum of its questions.
C29_AnswersAndScoreOfOwnQuiz ==
    /\ \A r \in BagToSet(answers) :
          Question[r.question_id].quiz_id = quizSubs[r.submission_id].quiz_id
    /\ qresp.op = "complete" /\ qresp.code = 200 =>
          qresp.quiz = quizSubs[qresp.sub].quiz_id

-----------------------------------------------------------------------------
(* The cached producer under overlapping publishes                         *)

\* C30: until shutdown at most one producer is created, a task sends only
\* through a producer whose start() has completed, and an event is dropped
\* (taken off a handler's list without the broker accepting it) only when the
\* transport is unreachable.
C30_OneStartedProducer ==
    /\ [](~closed =>
             /\ created <= 1
             /\ \A t \in Tasks : tasks[t].pc = "send" => tasks[t].loc \in started)
    /\ [][\A t \in Tasks :
             /\ ~closed
             /\ tasks[t].pc # "idle"
             /\ tasks'[t].events # tasks[t].events
             /\ sent' = sent
             => ~transportUp]_vars

====
